---- MODULE Spec2Model ----
\* Flight-booking backend (server/index.js, server/schemas.js): the flights,
\* bookings and users collections, and the request handlers that read and write
\* them.
\* Every `await` on a database operation is one step of a handler; the code a
\* handler runs between two awaits touches only its own locals and is folded
\* into the step of the await before it. A save() writes the paths the handler
\* changed on its copy of the document ($set), whatever the stored document holds
\* by then. Requests to the protected routes carry a valid token (authMiddleware
\* has attached req.user); a handler with a single database operation is one step
\* and leaves its request and response in resp.
EXTENDS Integers, Sequences, FiniteSets, TLC

\* ------------------------------------------------------------------ bounds
NumReq == 2          \* request handlers that may be in flight at the same time
MaxBookings == 2     \* bookings the collection holds before no more are requested
MaxSeats == 2        \* largest totalSeats a request body carries
MaxPassengers == 2   \* longest passengers array a request body carries
MaxUsers == 2        \* users the collection holds before no more register

Procs == 1..NumReq
FlightIds == {1}                      \* _id values Flight documents get
BookingIds == 1..MaxBookings          \* _id values Booking documents get
UserIds == 1..MaxUsers                \* _id values User documents get
SeatClassInputs == {"economy", "business"}

\* ----------------------------------------------------------- session claims
\* req.user as authMiddleware attaches it: the token's {id, usertype, approval}.
Claims(id, usertype, approval) == [id |-> id, usertype |-> usertype, approval |-> approval]
Traveler1 == Claims("u1", "user", "approved")
Traveler2 == Claims("u2", "user", "approved")
AdminUser == Claims("adm", "admin", "approved")
Operator == Claims("op", "flight-operator", "approved")
NoCaller == Claims("none", "none", "none")

\* --------------------------------------------------------------- documents
NoDoc == [exists |-> FALSE]

\* A Flight document. flightName stands for the String paths the handlers treat
\* alike (flightName, flightId, origin, destination, departureTime, arrivalTime);
\* basePrice and journeyDate take no part in the seat bookkeeping and are left out.
FlightDoc(name, total, avail) ==
    [exists |-> TRUE, flightName |-> name, totalSeats |-> total, availableSeats |-> avail]

\* A status other than the two the handlers know.
PendingStatus == "pending"

\* bookingStatus: 'confirmed' of new Booking({...})
NewBookingStatus == "confirmed"

\* A Booking document: its owner, its flight, its passengers, its seat codes (the
\* list the code joins with ', ') and its status; the snapshot paths copied from
\* the flight are left out.
BookingDoc(user, flight, class, passengers, seats, status) ==
    [exists |-> TRUE, user |-> user, flight |-> flight, seatClass |-> class,
     passengers |-> passengers, seats |-> seats, bookingStatus |-> status]

\* A User document; password holds the bcrypt hash.
UserDoc(username, email, usertype, password, approval) ==
    [exists |-> TRUE, username |-> username, email |-> email, usertype |-> usertype,
     password |-> password, approval |-> approval]

VARIABLES
    flights,    \* the flights collection: FlightIds -> document or NoDoc
    bookings,   \* the bookings collection: BookingIds -> document or NoDoc
    users,      \* the users collection: UserIds -> document or NoDoc
    tokens,     \* the payloads of the tokens jwt.sign has issued
    resp,       \* the last request a one-step handler served, and its response
    req         \* the request handlers: Procs -> the handler's position and locals

vars == <<flights, bookings, users, tokens, resp, req>>

\* No one-step handler has answered yet.
NoResp ==
    [kind |-> "none", status |-> 0, caller |-> NoCaller, body |-> NoDoc, token |-> NoCaller]

\* What a one-step handler leaves behind: the request and the response sent.
Response(kind, status, caller, body, token) ==
    [kind |-> kind, status |-> status, caller |-> caller, body |-> body, token |-> token]

\* A handler slot that has served no request yet.
IdleReq ==
    [kind |-> "none", pc |-> "idle", caller |-> NoCaller, flightId |-> 0,
     seatClass |-> "none", passengers |-> <<>>, bookingId |-> 0, body |-> NoDoc,
     flight |-> NoDoc, booking |-> NoDoc, read |-> NoDoc, count |-> 0, status |-> 0,
     userId |-> 0, user |-> NoDoc]

Init ==
    /\ flights = [f \in FlightIds |-> NoDoc]
    /\ bookings = [b \in BookingIds |-> NoDoc]
    /\ users = [u \in UserIds |-> NoDoc]
    /\ tokens = {}
    /\ resp = NoResp
    /\ req = [p \in Procs |-> IdleReq]

\* ------------------------------------------------------------- pure helpers
\* Booking.find({ flight: flightId, seatClass: seatClass }) followed by
\* reduce((acc, booking) => acc + booking.passengers.length, 0): cancelled bookings
\* are found and counted too.
\* Two bookings of one class may hold equal documents only if they are the same
\* document, so the sum runs over ids, not over document values.
RECURSIVE SumPassengers(_)
SumPassengers(ids) ==
    IF ids = {} THEN 0
    ELSE LET b == CHOOSE x \in ids : TRUE
         IN Len(bookings[b].passengers) + SumPassengers(ids \ {b})

\* A count that leaves cancelled bookings out.
NumConfirmedSeatsInClass(fid, class) ==
    SumPassengers({b \in BookingIds : /\ bookings[b].exists
                                      /\ bookings[b].flight = fid
                                      /\ bookings[b].seatClass = class
                                      /\ bookings[b].bookingStatus = "confirmed"})

NumBookedSeatsInClass(fid, class) ==
    SumPassengers({b \in BookingIds : /\ bookings[b].exists
                                      /\ bookings[b].flight = fid
                                      /\ bookings[b].seatClass = class})

seatCode ==
    ("economy" :> "E") @@ ("premium-economy" :> "P") @@ ("business" :> "B")
        @@ ("first-class" :> "A")

CoachPrefix(class) == IF class \in DOMAIN seatCode THEN seatCode[class] ELSE "undefined"

\* seatsAssigned.push(`${coachPrefix}-${numBookedSeatsInClass + i + 1}`) for i = 0..n-1;
\* a code is the pair <<prefix, number>>.
SeatsAssigned(class, numBooked, n) ==
    [i \in 1..n |-> <<CoachPrefix(class), numBooked + (i - 1) + 1>>]

\* A check that also refuses the last seats.
EnoughSeatsStrict(flight, n) == ~(flight.availableSeats <= n)

\* !(flight.availableSeats < numSeatsToBook)
EnoughSeats(flight, n) == ~(flight.availableSeats < n)

\* flight.availableSeats -= numSeatsToBook
SeatsAfterBooking(flight, n) == flight.availableSeats - n

\* A restoration of one seat per booking.
SeatsAfterCancelOne(flight, booking) == flight.availableSeats + 1

\* flight.availableSeats += booking.passengers.length
SeatsAfterCancel(flight, booking) == flight.availableSeats + Len(booking.passengers)

\* A check that lets every authenticated caller through.
MayCancelAnyone(booking, caller) == booking.exists

\* !(booking.user.toString() !== req.user.id && req.user.usertype !== 'admin')
MayCancel(booking, caller) == ~(booking.user # caller.id /\ caller.usertype # "admin")

\* A check of the usertype alone.
PassesAnyOperator(caller) == ~(caller.usertype # "flight-operator")

\* flightOperatorAuth lets the request through
PassesFlightOperatorAuth(caller) ==
    ~(caller.usertype # "flight-operator" \/ caller.approval # "approved")

\* An assignment of the body's value whether the field was sent or not.
BodyValue(body, field, old) == body[field]

\* `x || flight.x` for a body field x: a missing field and a falsy one ("" or 0)
\* both leave the old value.
OrElseStr(body, field, old) ==
    IF field \in body.has /\ body[field] # "" THEN body[field] ELSE old
OrElseNum(body, field, old) ==
    IF field \in body.has /\ body[field] # 0 THEN body[field] ELSE old

Passengers(n) == [i \in 1..n |-> "passenger"]

\* bcrypt.hash(password, 10) and bcrypt.compare(password, hash): a hash is told
\* apart from the password it was made of, and matches that password only.
Hash(password) == <<"bcrypt", password>>
Compare(password, hash) == hash = Hash(password)

\* adminAuth lets the request through
PassesAdminAuth(caller) == ~(caller.usertype # "admin")

\* An approval that marks every new account as waiting.
ApprovalAlwaysPending(usertype) == "not-approved"

\* let approval = 'approved'; if (usertype === 'flight-operator') approval = 'not-approved'
ApprovalAtRegistration(usertype) ==
    IF usertype = "flight-operator" THEN "not-approved" ELSE "approved"

\* the usertype passes the check of /register
UsertypeValid(usertype) == ~(usertype # "flight-operator" /\ usertype # "user" /\ usertype # "admin")

\* user.usertype === 'flight-operator' && user.approval === 'not-approved'
LoginBlocked(user) == user.usertype = "flight-operator" /\ user.approval = "not-approved"

\* payload.user of jwt.sign: { id: user._id, usertype, approval }
TokenOf(u, user) == Claims(ToString(u), user.usertype, user.approval)

\* User.findOne({ email }) / User.findOne({ username }): the ids of the matches
\* (findOne returns the first one, or null when there is none).
UsersWithEmail(email) == {u \in UserIds : users[u].exists /\ users[u].email = email}
UsersWithUsername(username) ==
    {u \in UserIds : users[u].exists /\ users[u].username = username}
FirstOf(ids) == CHOOSE u \in ids : \A v \in ids : u <= v

\* ------------------------------------------------------------ request steps
\* A handler that never sends its response.
NeverAnswer(p, status) == req[p]

\* A handler's record keeps a local only as long as the code still reads it.
\* The response is sent: the slot keeps what the request was (its kind, its
\* passengers, the booking it named or created) and the status code it got; the
\* handler's other locals are gone.
Finish(p, status) ==
    [IdleReq EXCEPT !.kind = req[p].kind, !.pc = "done", !.status = status,
                    !.passengers = req[p].passengers, !.bookingId = req[p].bookingId]

Free(p) == req[p].pc \in {"idle", "done"}
InFlight(p) == ~Free(p)

\* A new request takes the lowest free slot (the slots are interchangeable).
MayStart(p) == Free(p) /\ \A q \in Procs : q < p => InFlight(q)

\* Bookings that exist or are about to be saved: bookTicket requests stop
\* arriving when there are MaxBookings of them (the code has no such limit).
BookingsCommitted ==
    Cardinality({b \in BookingIds : bookings[b].exists})
      + Cardinality({q \in Procs : req[q].kind = "book"
                                     /\ req[q].pc \in {"findFlight", "findBookings",
                                                       "saveBooking"}})

\* The _id a new Booking document gets: one no document has (ids are handed out
\* in the order the documents are saved).
NewBookingId == CHOOSE b \in BookingIds :
                   ~bookings[b].exists /\ \A c \in BookingIds : ~bookings[c].exists => b <= c

\* POST /book-ticket -----------------------------------------------------------
\* The request arrives and passes authMiddleware; Flight.findById is issued.
StartBook(p, caller, fid, class, n) ==
    /\ MayStart(p)
    /\ BookingsCommitted < MaxBookings
    /\ req' = [req EXCEPT ![p] =
                 [IdleReq EXCEPT !.kind = "book", !.pc = "findFlight", !.caller = caller,
                                 !.flightId = fid, !.seatClass = class,
                                 !.passengers = Passengers(n)]]
    /\ UNCHANGED <<flights, bookings>>
    /\ UNCHANGED <<users, tokens, resp>>

\* await Flight.findById(flightId), then the checks up to Booking.find
BookFindFlight(p) ==
    /\ req[p].kind = "book" /\ req[p].pc = "findFlight"
    /\ LET flight == flights[req[p].flightId]
       IN req' = [req EXCEPT ![p] =
                    IF ~flight.exists THEN Finish(p, 404)
                    ELSE IF ~EnoughSeats(flight, Len(req[p].passengers)) THEN Finish(p, 400)
                    ELSE [req[p] EXCEPT !.pc = "findBookings", !.flight = flight]]
    /\ UNCHANGED <<flights, bookings>>
    /\ UNCHANGED <<users, tokens, resp>>

\* await Booking.find({flight, seatClass}), then the seat codes and new Booking(...)
BookFindBookings(p) ==
    /\ req[p].kind = "book" /\ req[p].pc = "findBookings"
    /\ req' = [req EXCEPT ![p] =
                 [req[p] EXCEPT !.pc = "saveBooking",
                                !.count = NumBookedSeatsInClass(req[p].flightId,
                                                                req[p].seatClass)]]
    /\ UNCHANGED <<flights, bookings>>
    /\ UNCHANGED <<users, tokens, resp>>

\* await newBooking.save(), then flight.availableSeats -= numSeatsToBook on the local copy
BookSaveBooking(p) ==
    /\ req[p].kind = "book" /\ req[p].pc = "saveBooking"
    /\ LET r == req[p]
           n == Len(r.passengers)
           doc == BookingDoc(r.caller.id, r.flightId, r.seatClass, r.passengers,
                             SeatsAssigned(r.seatClass, r.count, n), NewBookingStatus)
       IN /\ bookings' = [bookings EXCEPT ![NewBookingId] = doc]
          /\ req' = [req EXCEPT ![p] =
                       [r EXCEPT !.pc = "saveFlight", !.bookingId = NewBookingId,
                                 !.caller = NoCaller,
                                 !.flight.availableSeats = SeatsAfterBooking(r.flight, n)]]
    /\ UNCHANGED flights
    /\ UNCHANGED <<users, tokens, resp>>

\* await flight.save(): the modified path availableSeats is $set to the local value;
\* then res.status(201)
BookSaveFlight(p) ==
    /\ req[p].kind = "book" /\ req[p].pc = "saveFlight"
    /\ LET r == req[p]
       IN flights' = IF Len(r.passengers) # 0
                     THEN [flights EXCEPT ![r.flightId].availableSeats =
                                                          r.flight.availableSeats]
                     ELSE flights
    /\ req' = [req EXCEPT ![p] = Finish(p, 201)]
    /\ UNCHANGED bookings
    /\ UNCHANGED <<users, tokens, resp>>

\* PUT /cancel-ticket/:id -------------------------------------------------------
StartCancel(p, caller, bid) ==
    /\ MayStart(p)
    /\ req' = [req EXCEPT ![p] =
                 [IdleReq EXCEPT !.kind = "cancel", !.pc = "findBooking",
                                 !.caller = caller, !.bookingId = bid]]
    /\ UNCHANGED <<flights, bookings>>
    /\ UNCHANGED <<users, tokens, resp>>

\* await Booking.findById(bookingId), then the checks and booking.bookingStatus = 'cancelled'
CancelFindBooking(p) ==
    /\ req[p].kind = "cancel" /\ req[p].pc = "findBooking"
    /\ LET booking == bookings[req[p].bookingId]
       IN req' = [req EXCEPT ![p] =
                    IF ~booking.exists THEN Finish(p, 404)
                    ELSE IF ~MayCancel(booking, req[p].caller) THEN Finish(p, 403)
                    ELSE IF booking.bookingStatus = "cancelled" THEN Finish(p, 400)
                    ELSE [req[p] EXCEPT !.pc = "saveBooking", !.caller = NoCaller,
                                        !.booking = [booking EXCEPT
                                                       !.bookingStatus = "cancelled"]]]
    /\ UNCHANGED <<flights, bookings>>
    /\ UNCHANGED <<users, tokens, resp>>

\* await booking.save(): the modified path bookingStatus is $set
CancelSaveBooking(p) ==
    /\ req[p].kind = "cancel" /\ req[p].pc = "saveBooking"
    /\ bookings' = [bookings EXCEPT ![req[p].bookingId].bookingStatus =
                                                     req[p].booking.bookingStatus]
    /\ req' = [req EXCEPT ![p].pc = "findFlight"]
    /\ UNCHANGED flights
    /\ UNCHANGED <<users, tokens, resp>>

\* await Flight.findById(booking.flight), then flight.availableSeats += ... on the
\* local copy; a missing flight skips the restoration
CancelFindFlight(p) ==
    /\ req[p].kind = "cancel" /\ req[p].pc = "findFlight"
    /\ LET r == req[p]
           flight == flights[r.booking.flight]
       IN req' = [req EXCEPT ![p] =
                    IF ~flight.exists THEN Finish(p, 200)
                    ELSE [r EXCEPT !.pc = "saveFlight",
                                   !.flight = [flight EXCEPT !.availableSeats =
                                                 SeatsAfterCancel(flight, r.booking)]]]
    /\ UNCHANGED <<flights, bookings>>
    /\ UNCHANGED <<users, tokens, resp>>

\* await flight.save(), then res.json(...)
CancelSaveFlight(p) ==
    /\ req[p].kind = "cancel" /\ req[p].pc = "saveFlight"
    /\ LET r == req[p]
       IN flights' = IF Len(r.booking.passengers) # 0
                     THEN [flights EXCEPT ![r.booking.flight].availableSeats =
                                                          r.flight.availableSeats]
                     ELSE flights
    /\ req' = [req EXCEPT ![p] = Finish(p, 200)]
    /\ UNCHANGED bookings
    /\ UNCHANGED <<users, tokens, resp>>

\* POST /add-flight -------------------------------------------------------------
\* The handler has one await, flight.save(): it is one step. Mongoose refuses a
\* document that lacks a required path (a String path set to "" counts as lacking),
\* the save throws and the handler answers 500.
FlightValid(body) ==
    /\ "flightName" \in body.has /\ body.flightName # ""
    /\ "totalSeats" \in body.has

AddFlight(caller, body) ==
    /\ \E f \in FlightIds : ~flights[f].exists
    /\ LET f == CHOOSE x \in FlightIds :
                   ~flights[x].exists /\ \A y \in FlightIds : ~flights[y].exists => x <= y
       IN IF ~PassesFlightOperatorAuth(caller)
          THEN /\ flights' = flights
               /\ resp' = Response("add-flight", 403, caller, body, NoCaller)
          ELSE IF ~FlightValid(body)
          THEN /\ flights' = flights
               /\ resp' = Response("add-flight", 500, caller, body, NoCaller)
          ELSE /\ flights' = [flights EXCEPT ![f] =
                                FlightDoc(body.flightName, body.totalSeats, body.totalSeats)]
               /\ resp' = Response("add-flight", 201, caller, body, NoCaller)
    /\ UNCHANGED <<bookings, req>>
    /\ UNCHANGED <<users, tokens>>

\* PUT /update-flight -----------------------------------------------------------
StartUpdate(p, caller, fid, body) ==
    /\ MayStart(p)
    /\ req' = [req EXCEPT ![p] =
                 IF ~PassesFlightOperatorAuth(caller)
                 THEN [IdleReq EXCEPT !.kind = "update", !.pc = "done", !.status = 403]
                 ELSE [IdleReq EXCEPT !.kind = "update", !.pc = "findFlight",
                                      !.caller = caller, !.flightId = fid, !.body = body]]
    /\ UNCHANGED <<flights, bookings>>
    /\ UNCHANGED <<users, tokens, resp>>

\* await Flight.findById(_id), then the field assignments on the local copy
UpdateFindFlight(p) ==
    /\ req[p].kind = "update" /\ req[p].pc = "findFlight"
    /\ LET r == req[p]
           flight == flights[r.flightId]
       IN req' = [req EXCEPT ![p] =
                    IF ~flight.exists THEN Finish(p, 404)
                    ELSE [r EXCEPT !.pc = "saveFlight",
                                   !.read = flight,   \* the document as it was read
                                   !.flight = [flight EXCEPT
                                     !.flightName =
                                         OrElseStr(r.body, "flightName", flight.flightName),
                                     !.totalSeats =
                                         OrElseNum(r.body, "totalSeats", flight.totalSeats)]]]
    /\ UNCHANGED <<flights, bookings>>
    /\ UNCHANGED <<users, tokens, resp>>

\* await flight.save(): the paths whose value changed are $set
UpdateSaveFlight(p) ==
    /\ req[p].kind = "update" /\ req[p].pc = "saveFlight"
    /\ LET r == req[p]
           old == flights[r.flightId]
       IN flights' = [flights EXCEPT ![r.flightId] =
                        [old EXCEPT
                           !.flightName = IF r.flight.flightName # r.read.flightName
                                          THEN r.flight.flightName ELSE old.flightName,
                           !.totalSeats = IF r.flight.totalSeats # r.read.totalSeats
                                          THEN r.flight.totalSeats ELSE old.totalSeats]]
    /\ req' = [req EXCEPT ![p] = Finish(p, 200)]
    /\ UNCHANGED bookings
    /\ UNCHANGED <<users, tokens, resp>>

\* POST /register ---------------------------------------------------------------
\* Users that exist or are about to be saved: register requests stop arriving
\* when there are MaxUsers of them (the code has no such limit).
UsersCommitted ==
    Cardinality({u \in UserIds : users[u].exists})
      + Cardinality({q \in Procs : req[q].kind = "register" /\ InFlight(q)})

\* The _id a new User document gets.
NewUserId == CHOOSE u \in UserIds :
                ~users[u].exists /\ \A v \in UserIds : ~users[v].exists => u <= v

\* The request arrives (no middleware); User.findOne({ email }) is issued.
StartRegister(p, body) ==
    /\ MayStart(p)
    /\ UsersCommitted < MaxUsers
    /\ req' = [req EXCEPT ![p] =
                 [IdleReq EXCEPT !.kind = "register", !.pc = "findEmail", !.body = body]]
    /\ UNCHANGED <<flights, bookings, users, tokens, resp>>

\* await User.findOne({ email })
RegisterFindEmail(p) ==
    /\ req[p].kind = "register" /\ req[p].pc = "findEmail"
    /\ req' = [req EXCEPT ![p] =
                 IF UsersWithEmail(req[p].body.email) # {} THEN Finish(p, 400)
                 ELSE [req[p] EXCEPT !.pc = "findUsername"]]
    /\ UNCHANGED <<flights, bookings, users, tokens, resp>>

\* await User.findOne({ username }), then the usertype check, bcrypt.hash (an await
\* that touches no collection) and new User({...})
RegisterFindUsername(p) ==
    /\ req[p].kind = "register" /\ req[p].pc = "findUsername"
    /\ LET body == req[p].body
       IN req' = [req EXCEPT ![p] =
                    IF UsersWithUsername(body.username) # {} THEN Finish(p, 400)
                    ELSE IF ~UsertypeValid(body.usertype) THEN Finish(p, 400)
                    ELSE [req[p] EXCEPT
                            !.pc = "saveUser",
                            !.user = UserDoc(body.username, body.email, body.usertype,
                                             Hash(body.password),
                                             ApprovalAtRegistration(body.usertype))]]
    /\ UNCHANGED <<flights, bookings, users, tokens, resp>>

\* await newUser.save(): the unique index on email refuses a second document with
\* the same email (the save throws, the catch block answers 500); username has no
\* index. Then jwt.sign and res.status(201).
RegisterSaveUser(p) ==
    /\ req[p].kind = "register" /\ req[p].pc = "saveUser"
    /\ LET r == req[p]
       IN IF UsersWithEmail(r.user.email) # {}
          THEN /\ req' = [req EXCEPT ![p] = Finish(p, 500)]
               /\ UNCHANGED <<users, tokens>>
          ELSE /\ users' = [users EXCEPT ![NewUserId] = r.user]
               /\ tokens' = tokens \cup {TokenOf(NewUserId, r.user)}
               /\ req' = [req EXCEPT ![p] = [Finish(p, 201) EXCEPT !.userId = NewUserId]]
    /\ UNCHANGED <<flights, bookings, resp>>

\* POST /login ------------------------------------------------------------------
\* One read of the users collection (User.findOne); bcrypt.compare and jwt.sign
\* touch no collection: the handler is one step.
Login(body) ==
    /\ LET found == UsersWithEmail(body.email)
           u == FirstOf(found)
       IN IF found = {} \/ ~Compare(body.password, users[u].password)
          THEN /\ resp' = Response("login", 401, NoCaller, body, NoCaller)
               /\ tokens' = tokens
          ELSE IF LoginBlocked(users[u])
          THEN /\ resp' = Response("login", 403, NoCaller, body, NoCaller)
               /\ tokens' = tokens
          ELSE /\ resp' = Response("login", 200, NoCaller, body, TokenOf(u, users[u]))
               /\ tokens' = tokens \cup {TokenOf(u, users[u])}
    /\ UNCHANGED <<flights, bookings, users, req>>

\* POST /approve-operator, POST /reject-operator --------------------------------
\* The two handlers differ in the approval they set. authMiddleware has verified
\* a token the server issued; adminAuth looks at the usertype it carries.
ApprovalSetBy(kind) == IF kind = "approve" THEN "approved" ELSE "rejected"

StartModerate(p, kind, caller, id) ==
    /\ MayStart(p)
    /\ caller \in tokens
    /\ req' = [req EXCEPT ![p] =
                 IF ~PassesAdminAuth(caller)
                 THEN [IdleReq EXCEPT !.kind = kind, !.pc = "done", !.status = 403,
                                      !.caller = caller, !.userId = id]
                 ELSE [IdleReq EXCEPT !.kind = kind, !.pc = "findUser",
                                      !.caller = caller, !.userId = id]]
    /\ UNCHANGED <<flights, bookings, users, tokens, resp>>

\* await User.findById(id), then the checks and user.approval = ... on the local copy
ModerateFindUser(p) ==
    /\ req[p].kind \in {"approve", "reject"} /\ req[p].pc = "findUser"
    /\ LET r == req[p]
           user == users[r.userId]
       IN req' = [req EXCEPT ![p] =
                    IF ~user.exists THEN [Finish(p, 404) EXCEPT !.userId = r.userId]
                    ELSE IF user.usertype # "flight-operator"
                         THEN [Finish(p, 400) EXCEPT !.userId = r.userId]
                    ELSE [r EXCEPT !.pc = "saveUser", !.read = user, !.caller = NoCaller,
                                   !.user = [user EXCEPT !.approval = ApprovalSetBy(r.kind)]]]
    /\ UNCHANGED <<flights, bookings, users, tokens, resp>>

\* await user.save(): approval is $set when the handler changed it
ModerateSaveUser(p) ==
    /\ req[p].kind \in {"approve", "reject"} /\ req[p].pc = "saveUser"
    /\ LET r == req[p]
       IN users' = IF r.user.approval # r.read.approval
                   THEN [users EXCEPT ![r.userId].approval = r.user.approval]
                   ELSE users
    /\ req' = [req EXCEPT ![p] = [Finish(p, 200) EXCEPT !.userId = req[p].userId]]
    /\ UNCHANGED <<flights, bookings, tokens, resp>>

\* Tokens -------------------------------------------------------------------------
\* jwt.sign(payload, secret, { expiresIn: '1h' }): an hour after it was issued
\* jwt.verify refuses the token and authMiddleware answers 401; until then the
\* payload is trusted as it was signed.
TokenExpires(t) ==
    /\ t \in tokens
    /\ tokens' = tokens \ {t}
    /\ UNCHANGED <<flights, bookings, users, resp, req>>

\* ------------------------------------------------------------------ inputs
FlightBody(has, name, total) == [has |-> has, flightName |-> name, totalSeats |-> total]

\* Request bodies of the concurrent specifications: well-formed ones only.
AddBodies == {FlightBody({"flightName", "totalSeats"}, "AA", t) : t \in 1..MaxSeats}
UpdateBodies == {FlightBody({"totalSeats"}, "", t) : t \in 1..MaxSeats}
PassengerCounts == 1..MaxPassengers
BookCallers == {Traveler1}
CancelCallers == {Traveler1, AdminUser}
CatalogCallers == {Operator}

\* Request bodies of the sequential specification: also the ones the handlers do
\* not expect (no seats, no passengers, a missing field, a caller without the right).
SeqAddBodies ==
    {FlightBody({"flightName", "totalSeats"}, "AA", t) : t \in (0 - 1)..MaxSeats}
        \cup {FlightBody({"flightName"}, "AA", 0)}
SeqUpdateBodies ==
    {FlightBody({"totalSeats"}, "", t) : t \in 0..MaxSeats}
        \cup {FlightBody({"flightName"}, "BB", 0), FlightBody({}, "", 0)}
SeqPassengerCounts == 0..MaxPassengers
SeqCancelCallers == {Traveler1, Traveler2, AdminUser}
SeqCatalogCallers == {Operator, AdminUser}

\* ------------------------------------------------------------ specifications
BookStep(p) ==
    \/ BookFindFlight(p)
    \/ BookFindBookings(p)
    \/ BookSaveBooking(p)
    \/ BookSaveFlight(p)

CancelStep(p) ==
    \/ CancelFindBooking(p)
    \/ CancelSaveBooking(p)
    \/ CancelFindFlight(p)
    \/ CancelSaveFlight(p)

UpdateStep(p) ==
    \/ UpdateFindFlight(p)
    \/ UpdateSaveFlight(p)

AddRequest(callers, bodies) == \E c \in callers, body \in bodies : AddFlight(c, body)

BookRequest(p, counts) ==
    \E c \in BookCallers, f \in FlightIds, cl \in SeatClassInputs, n \in counts :
        StartBook(p, c, f, cl, n)

CancelRequest(p, callers) == \E c \in callers, b \in BookingIds : StartCancel(p, c, b)

UpdateRequest(p, callers, bodies) ==
    \E c \in callers, f \in FlightIds, body \in bodies : StartUpdate(p, c, f, body)

\* Requests arrive at any time and their handlers interleave at every await.
Next ==
    \/ AddRequest(CatalogCallers, AddBodies)
    \/ \E p \in Procs : BookRequest(p, PassengerCounts)
    \/ \E p \in Procs : CancelRequest(p, CancelCallers)
    \/ \E p \in Procs : UpdateRequest(p, CatalogCallers, UpdateBodies)
    \/ \E p \in Procs : BookStep(p)
    \/ \E p \in Procs : CancelStep(p)
    \/ \E p \in Procs : UpdateStep(p)

Spec == Init /\ [][Next]_vars

\* The booking engine alone: no flight is edited after it was added.
NextEngine ==
    \/ AddRequest(CatalogCallers, AddBodies)
    \/ \E p \in Procs : BookRequest(p, PassengerCounts)
    \/ \E p \in Procs : CancelRequest(p, CancelCallers)
    \/ \E p \in Procs : BookStep(p)
    \/ \E p \in Procs : CancelStep(p)

SpecEngine == Init /\ [][NextEngine]_vars

\* The booking engine on an event loop that runs every continuation that is
\* ready: a handler whose awaited operation can complete takes its next step.
SpecEngineFair ==
    /\ Init /\ [][NextEngine]_vars
    /\ \A p \in Procs : WF_vars(BookStep(p) \/ CancelStep(p))

\* Requests executed one after the other: a request arrives only when no
\* handler is in flight.
NoneInFlight == \A p \in Procs : Free(p)

NextSeq ==
    \/ NoneInFlight /\ AddRequest(SeqCatalogCallers, SeqAddBodies)
    \/ NoneInFlight /\ \E p \in Procs : BookRequest(p, SeqPassengerCounts)
    \/ NoneInFlight /\ \E p \in Procs : CancelRequest(p, SeqCancelCallers)
    \/ NoneInFlight /\ \E p \in Procs : UpdateRequest(p, SeqCatalogCallers, SeqUpdateBodies)
    \/ \E p \in Procs : BookStep(p)
    \/ \E p \in Procs : CancelStep(p)
    \/ \E p \in Procs : UpdateStep(p)

SpecSeq == Init /\ [][NextSeq]_vars

\* A storage operation fails: the awaited call throws, the handler's catch block
\* answers 500 and nothing is written.
StorageFault(p) ==
    /\ InFlight(p)
    /\ req' = [req EXCEPT ![p] = Finish(p, 500)]
    /\ UNCHANGED <<flights, bookings>>
    /\ UNCHANGED <<users, tokens, resp>>

\* Sequential requests over a store whose operations may fail.
NextFault ==
    \/ NextSeq
    \/ \E p \in Procs : StorageFault(p)

SpecFault == Init /\ [][NextFault]_vars

\* The accounts: registration, login and the moderation of flight operators.
RegisterBody(username, email, usertype, password) ==
    [username |-> username, email |-> email, usertype |-> usertype, password |-> password]
LoginBody(email, password) == [email |-> email, password |-> password]

Usernames == {"ann", "bob"}
Emails == {"a@x", "b@x"}
\* The concurrent specification registers admins and flight operators and logs
\* in with the right password; the sequential one also has travelers, a usertype
\* the code does not know, and a wrong password.
UsertypeInputs == {"admin", "flight-operator"}
SeqUsertypeInputs == {"user", "admin", "flight-operator", "guest"}
RegisterBodies ==
    {RegisterBody(n, e, t, "pw") : n \in Usernames, e \in Emails, t \in UsertypeInputs}
SeqRegisterBodies ==
    {RegisterBody(n, e, t, "pw") : n \in Usernames, e \in Emails, t \in SeqUsertypeInputs}
LoginBodies == {LoginBody(e, "pw") : e \in Emails}
SeqLoginBodies == {LoginBody(e, pw) : e \in Emails, pw \in {"pw", "other"}}

RegisterStep(p) ==
    \/ RegisterFindEmail(p)
    \/ RegisterFindUsername(p)
    \/ RegisterSaveUser(p)

ModerateStep(p) ==
    \/ ModerateFindUser(p)
    \/ ModerateSaveUser(p)

RegisterRequest(p, bodies) == \E body \in bodies : StartRegister(p, body)

LoginRequest(bodies) == \E body \in bodies : Login(body)

ModerateRequest(p) ==
    \E kind \in {"approve", "reject"}, c \in tokens, id \in UserIds :
        StartModerate(p, kind, c, id)

NextAccounts ==
    \/ \E p \in Procs : RegisterRequest(p, RegisterBodies)
    \/ LoginRequest(LoginBodies)
    \/ \E p \in Procs : ModerateRequest(p)
    \/ \E p \in Procs : RegisterStep(p)
    \/ \E p \in Procs : ModerateStep(p)

SpecAccounts == Init /\ [][NextAccounts]_vars

\* The same requests executed one after the other.
NextAccountsSeq ==
    \/ NoneInFlight /\ \E p \in Procs : RegisterRequest(p, SeqRegisterBodies)
    \/ NoneInFlight /\ LoginRequest(SeqLoginBodies)
    \/ NoneInFlight /\ \E p \in Procs : ModerateRequest(p)
    \/ \E p \in Procs : RegisterStep(p)
    \/ \E p \in Procs : ModerateStep(p)

SpecAccountsSeq == Init /\ [][NextAccountsSeq]_vars

\* Accounts and the flight catalog together, one request at a time: the callers
\* of add-flight and update-flight present tokens the server issued and that have
\* not expired.
SessionRegisterBodies ==
    {RegisterBody("ann", "a@x", "admin", "pw"),
     RegisterBody("bob", "b@x", "flight-operator", "pw")}

NextSession ==
    \/ NoneInFlight /\ \E p \in Procs : RegisterRequest(p, SessionRegisterBodies)
    \/ NoneInFlight /\ LoginRequest(LoginBodies)
    \/ NoneInFlight /\ \E p \in Procs : ModerateRequest(p)
    \/ NoneInFlight /\ AddRequest(tokens, AddBodies)
    \/ NoneInFlight /\ \E p \in Procs : UpdateRequest(p, tokens, UpdateBodies)
    \/ NoneInFlight /\ \E t \in tokens : TokenExpires(t)
    \/ \E p \in Procs : RegisterStep(p)
    \/ \E p \in Procs : ModerateStep(p)
    \/ \E p \in Procs : UpdateStep(p)

SpecSession == Init /\ [][NextSession]_vars

\* ================================================================== claims

\* C1: in every reachable state every flight has 0 <= availableSeats <= totalSeats.
\* Stated for the booking engine alone (flights are added, booked and cancelled,
\* never edited).
C1_SeatsWithinCapacity ==
    \A f \in FlightIds :
        flights[f].exists =>
            /\ 0 <= flights[f].availableSeats
            /\ flights[f].availableSeats <= flights[f].totalSeats

BookingsOn(f) == {b \in BookingIds : bookings[b].exists /\ bookings[b].flight = f}

\* C2: once the bookings made on a flight have all finished and none was
\* cancelled, availableSeats is the capacity the flight started with less the
\* seats of the bookings made, and it is not negative.
C2_NoLostDecrement ==
    \A f \in FlightIds :
        ( /\ flights[f].exists
          /\ NoneInFlight
          /\ \A b \in BookingsOn(f) : bookings[b].bookingStatus = "confirmed" )
        => /\ flights[f].availableSeats >= 0
           /\ flights[f].availableSeats =
                  flights[f].totalSeats - SumPassengers(BookingsOn(f))

\* C3: N bookTicket calls of one seat each, made on a fresh flight of N-1 seats,
\* end in N-1 successes and one InsufficientSeats failure, with no seat left.
\* N is the number of handler slots; the calls are the ones the slots hold, each
\* answered 201 or 400 (so each found the flight), and the bookings that exist
\* are theirs.
C3_AllButOneSucceed ==
    \A f \in FlightIds :
        ( /\ flights[f].exists
          /\ flights[f].totalSeats = NumReq - 1
          /\ \A p \in Procs : /\ req[p].kind = "book"
                              /\ req[p].pc = "done"
                              /\ req[p].status \in {201, 400}
                              /\ Len(req[p].passengers) = 1
          /\ \A b \in BookingIds :
                bookings[b].exists =>
                    /\ bookings[b].bookingStatus = "confirmed"
                    /\ \E p \in Procs : req[p].status = 201 /\ req[p].bookingId = b )
        => /\ Cardinality({p \in Procs : req[p].status = 201}) = NumReq - 1
           /\ Cardinality({p \in Procs : req[p].status = 400}) = 1
           /\ flights[f].availableSeats = 0

SeatCodes(b) == {bookings[b].seats[i] : i \in 1..Len(bookings[b].seats)}

\* C4: no seat code appears twice among the bookings of one flight and seat class.
C4_SeatCodesUnique ==
    \A b1, b2 \in BookingIds :
        ( /\ bookings[b1].exists /\ bookings[b2].exists
          /\ bookings[b1].flight = bookings[b2].flight
          /\ bookings[b1].seatClass = bookings[b2].seatClass )
        => /\ b1 # b2 => SeatCodes(b1) \cap SeatCodes(b2) = {}
           /\ Cardinality(SeatCodes(b1)) = Len(bookings[b1].seats)

\* C5: a bookTicket request of n >= 1 passengers that finishes has either created
\* its booking and taken n seats off the flight, or done neither; and it answers
\* 201 only when it did both.
C5_BookingAtomic ==
    [][ \A p \in Procs :
          ( /\ req[p].kind = "book" /\ InFlight(p) /\ req'[p].pc = "done"
            /\ Len(req[p].passengers) >= 1 )
          => LET f == req[p].flightId
                 created == req[p].bookingId # 0
                 decremented ==
                     /\ flights[f].exists
                     /\ flights'[f].availableSeats =
                            flights[f].availableSeats - Len(req[p].passengers)
             IN /\ created <=> decremented
                /\ req'[p].status = 201 => created /\ decremented ]_vars

\* C6: with no other request in flight, on a flight with availableSeats = a >= 1,
\* a bookTicket of a passengers answers 201, creates its confirmed booking and
\* leaves availableSeats = 0; a bookTicket of a + 1 passengers answers 400 and
\* leaves the flights and the bookings as they were. (The step is the one that
\* finishes the request; the flight document is still the one the request found.)
C6_LastSeatsAndOneTooMany ==
    [][ \A p \in Procs :
          ( /\ req[p].kind = "book" /\ InFlight(p) /\ req'[p].pc = "done"
            /\ flights[req[p].flightId].exists
            /\ flights[req[p].flightId].availableSeats >= 1 )
          => LET f == req[p].flightId
                 a == flights[f].availableSeats
                 n == Len(req[p].passengers)
                 b == req'[p].bookingId
             IN /\ n = a =>
                      /\ req'[p].status = 201
                      /\ flights'[f].availableSeats = 0
                      /\ b \in BookingIds
                      /\ bookings'[b].exists
                      /\ bookings'[b].bookingStatus = "confirmed"
                      /\ Len(bookings'[b].passengers) = n
                /\ n = a + 1 =>
                      /\ req'[p].status = 400
                      /\ b = 0
                      /\ flights' = flights
                      /\ bookings' = bookings ]_vars

\* A request for the last two seats of a flight was answered 201 and none is left.
C6_Witness ==
    /\ req[1].kind = "book" /\ req[1].pc = "done" /\ req[1].status = 201
    /\ Len(req[1].passengers) = 2
    /\ flights[1].exists /\ flights[1].availableSeats = 0 /\ flights[1].totalSeats = 2
    /\ Cardinality(BookingsOn(1)) = 1

\* C7: with no other request in flight, a cancelTicket that finds its booking
\* confirmed answers 200, leaves the booking cancelled and the flight's
\* availableSeats larger by the booking's passengers.length; one that finds the
\* booking cancelled answers 400 and leaves flights and bookings as they were.
C7_CancelRestoresOnce ==
    [][ \A p \in Procs :
          ( /\ req[p].kind = "cancel" /\ InFlight(p)
            /\ bookings[req[p].bookingId].exists )
          => LET b == req[p].bookingId
                 f == bookings[b].flight
             IN /\ ( /\ req[p].pc = "findBooking"
                     /\ MayCancel(bookings[b], req[p].caller)
                     /\ bookings[b].bookingStatus = "confirmed" )
                   => req'[p].pc = "saveBooking"
                /\ ( /\ req[p].pc = "findBooking"
                     /\ MayCancel(bookings[b], req[p].caller)
                     /\ bookings[b].bookingStatus = "cancelled" )
                   => /\ req'[p].pc = "done" /\ req'[p].status = 400
                      /\ flights' = flights /\ bookings' = bookings
                /\ req[p].pc \in {"saveBooking", "findFlight"}
                   => /\ InFlight(p)'
                      /\ flights' = flights
                      /\ bookings'[b].bookingStatus = "cancelled"
                /\ req[p].pc = "saveFlight"
                   => /\ req'[p].pc = "done" /\ req'[p].status = 200
                      /\ bookings' = bookings
                      /\ bookings[b].bookingStatus = "cancelled"
                      /\ flights'[f].availableSeats =
                             flights[f].availableSeats + Len(bookings[b].passengers) ]_vars

\* A booking of two passengers was cancelled, the seats are back, and a second
\* cancelTicket on it was answered 400.
C7_Witness ==
    /\ req[1].kind = "cancel" /\ req[1].pc = "done" /\ req[1].status = 400
    /\ req[1].bookingId = 1
    /\ bookings[1].exists /\ bookings[1].bookingStatus = "cancelled"
    /\ Len(bookings[1].passengers) = 2
    /\ flights[1].availableSeats = 2 /\ flights[1].totalSeats = 2
    /\ ~bookings[2].exists

\* C8: of the cancelTicket calls made on one booking at most one answers 200.
C8_CancelledOnce ==
    \A p, q \in Procs :
        ( /\ p # q
          /\ req[p].kind = "cancel" /\ req[p].pc = "done" /\ req[p].status = 200
          /\ req[q].kind = "cancel" /\ req[q].pc = "done" /\ req[q].status = 200 )
        => req[p].bookingId # req[q].bookingId

\* C9: a booking comes to exist with status confirmed, then its status is
\* confirmed or cancelled, a cancelled one stays cancelled, and no booking ceases
\* to exist.
C9_BookingLifecycle ==
    [][ \A b \in BookingIds :
          /\ (~bookings[b].exists /\ bookings'[b].exists)
                => bookings'[b].bookingStatus = "confirmed"
          /\ bookings[b].exists
                => /\ bookings'[b].exists
                   /\ bookings'[b].bookingStatus \in {"confirmed", "cancelled"}
                   /\ bookings[b].bookingStatus = "cancelled"
                         => bookings'[b].bookingStatus = "cancelled" ]_vars

\* A booking was cancelled while another one stays confirmed.
C9_Witness ==
    /\ bookings[1].exists /\ bookings[1].bookingStatus = "cancelled"
    /\ bookings[2].exists /\ bookings[2].bookingStatus = "confirmed"

\* The bookings of b's flight and seat class that were made before b (documents
\* get their _id in the order they are saved).
EarlierInClass(b) ==
    {c \in BookingIds : /\ c < b
                        /\ bookings[c].exists
                        /\ bookings[c].flight = bookings[b].flight
                        /\ bookings[c].seatClass = bookings[b].seatClass}

\* C10: for requests executed one after the other, the seats of a booking are
\* numbered on from the seats of all earlier bookings of its flight and class,
\* cancelled ones included: the k-th seat ever booked there has the code prefix-k.
C10_SeatNumbersRunOn ==
    \A b \in BookingIds :
        bookings[b].exists =>
            /\ Len(bookings[b].seats) = Len(bookings[b].passengers)
            /\ \A i \in 1..Len(bookings[b].seats) :
                  bookings[b].seats[i] =
                      <<seatCode[bookings[b].seatClass],
                        SumPassengers(EarlierInClass(b)) + i>>

\* Two economy seats were booked (E-1, E-2) and cancelled, and the next economy
\* booking got E-3.
C10_Witness ==
    /\ bookings[1].exists /\ bookings[1].bookingStatus = "cancelled"
    /\ bookings[1].seats = << <<"E", 1>>, <<"E", 2>> >>
    /\ bookings[2].exists /\ bookings[2].seats = << <<"E", 3>> >>

\* C11: a cancelTicket whose caller is neither the booking's owner nor an admin
\* answers 403 and leaves the bookings and the flights as they were; a handler
\* goes on to cancel only for the owner or an admin, and a booking's status
\* becomes cancelled only by the save of such a handler.
C11_OnlyOwnerOrAdminCancels ==
    [][ /\ \A p \in Procs :
              ( /\ req[p].kind = "cancel" /\ req[p].pc = "findBooking"
                /\ req'[p] # req[p]
                /\ bookings[req[p].bookingId].exists )
              => LET owner == bookings[req[p].bookingId].user = req[p].caller.id
                     admin == req[p].caller.usertype = "admin"
                 IN /\ ~(owner \/ admin)
                       => /\ req'[p].pc = "done" /\ req'[p].status = 403
                          /\ flights' = flights /\ bookings' = bookings
                    /\ req'[p].pc = "saveBooking" => (owner \/ admin)
        /\ \A b \in BookingIds :
              ( /\ bookings[b].exists
                /\ bookings[b].bookingStatus # "cancelled"
                /\ bookings'[b].bookingStatus = "cancelled" )
              => \E p \in Procs : /\ req[p].kind = "cancel"
                                  /\ req[p].pc = "saveBooking"
                                  /\ req[p].bookingId = b ]_vars

\* A cancelTicket on another user's confirmed booking was answered 403; the
\* booking is still confirmed and its seat is still taken.
C11_Witness ==
    /\ req[1].kind = "cancel" /\ req[1].pc = "done" /\ req[1].status = 403
    /\ req[1].bookingId = 1
    /\ bookings[1].exists /\ bookings[1].bookingStatus = "confirmed"
    /\ flights[1].exists /\ flights[1].availableSeats < flights[1].totalSeats

\* C12: a login with the right password for a flight operator whose stored
\* approval is not approved (not-approved or rejected) answers 403 and issues no
\* token.
C12_UnapprovedOperatorCannotLogin ==
    [][ (resp' # resp /\ resp'.kind = "login")
        => \A u \in UserIds :
              ( /\ users[u].exists
                /\ users[u].email = resp'.body.email
                /\ Compare(resp'.body.password, users[u].password)
                /\ users[u].usertype = "flight-operator"
                /\ users[u].approval # "approved" )
              => /\ resp'.status = 403
                 /\ resp'.token = NoCaller
                 /\ tokens' = tokens ]_vars

\* C13: an add-flight with well-formed fields creates a flight when the caller is
\* an admin or an approved flight operator; for any other caller it answers 403
\* and creates no flight.
C13_AddFlightPermission ==
    [][ (resp' # resp /\ resp'.kind = "add-flight")
        => LET c == resp'.caller
               body == resp'.body
               permitted == \/ c.usertype = "admin"
                            \/ c.usertype = "flight-operator" /\ c.approval = "approved"
               wellFormed == /\ body.has = {"flightName", "totalSeats"}
                             /\ body.flightName # ""
                             /\ body.totalSeats > 0
           IN /\ (permitted /\ wellFormed)
                    => /\ resp'.status = 201
                       /\ \E f \in FlightIds : ~flights[f].exists /\ flights'[f].exists
              /\ ~permitted
                    => /\ resp'.status = 403
                       /\ flights' = flights ]_vars

\* C14: a flight comes to exist with totalSeats > 0 and availableSeats =
\* totalSeats; an add-flight whose totalSeats is missing or not positive, or
\* whose flightName is missing, fails and creates no flight.
C14_NewFlightHasSeats ==
    [][ /\ \A f \in FlightIds :
              (~flights[f].exists /\ flights'[f].exists)
              => /\ flights'[f].totalSeats > 0
                 /\ flights'[f].availableSeats = flights'[f].totalSeats
        /\ ( /\ resp' # resp /\ resp'.kind = "add-flight"
             /\ \/ resp'.body.has # {"flightName", "totalSeats"}
                \/ resp'.body.totalSeats <= 0 )
           => /\ resp'.status # 201
              /\ flights' = flights ]_vars

\* C15: no two stored users have the same username or the same email, however
\* the register requests interleave.
C15_UsersUnique ==
    \A u, v \in UserIds :
        (u # v /\ users[u].exists /\ users[v].exists)
        => /\ users[u].username # users[v].username
           /\ users[u].email # users[v].email

Moderation == {"approve", "reject"}

\* C16: every stored user that is not a flight operator has approval approved;
\* a stored user's approval changes only by the save of an approve-operator or
\* reject-operator handler started by an admin, only for a flight operator, and
\* to the value that handler sets; a request answered 403, 404 or 400 leaves the
\* users as they were.
C16_ApprovalOnlyForOperators ==
    /\ [](\A u \in UserIds :
            (users[u].exists /\ users[u].usertype # "flight-operator")
            => users[u].approval = "approved")
    /\ [][ /\ \A u \in UserIds :
                (users[u].exists /\ users'[u].approval # users[u].approval)
                => /\ users[u].usertype = "flight-operator"
                   /\ \E p \in Procs :
                         /\ req[p].kind \in Moderation /\ req[p].pc = "saveUser"
                         /\ req[p].userId = u
                         /\ req'[p].pc = "done" /\ req'[p].status = 200
                         /\ users'[u].approval =
                                IF req[p].kind = "approve" THEN "approved" ELSE "rejected"
            /\ \A p \in Procs :
                  ( /\ req'[p] # req[p] /\ req'[p].kind \in Moderation )
                  => /\ req'[p].pc = "findUser" => req'[p].caller.usertype = "admin"
                     /\ (req'[p].pc = "done" /\ req'[p].status = 403)
                           => req'[p].caller.usertype # "admin"
                     /\ (req'[p].pc = "done" /\ req'[p].status \in {400, 403, 404})
                           => users' = users ]_vars

\* An admin has approved one flight operator and was answered 400 for trying to
\* reject an account that is not a flight operator.
C16_Witness ==
    /\ \E u \in UserIds : /\ users[u].exists /\ users[u].usertype = "flight-operator"
                          /\ users[u].approval = "approved"
    /\ \E p \in Procs : /\ req[p].kind = "reject" /\ req[p].pc = "done"
                        /\ req[p].status = 400
                        /\ users[req[p].userId].exists
                        /\ users[req[p].userId].approval = "approved"

\* C17: with no other request in flight, an update-flight that finds its flight
\* answers 200 and changes only fields its body supplies: a field the body lacks
\* keeps its value, a supplied one that is not empty or 0 gets the body's value,
\* and availableSeats and the bookings stay as they were; one that names a flight
\* that does not exist answers 404 and changes nothing.
C17_UpdateOnlySuppliedFields ==
    [][ \A p \in Procs :
          (req[p].kind = "update" /\ InFlight(p) /\ req'[p] # req[p])
          => LET f == req[p].flightId
                 body == req[p].body
             IN /\ bookings' = bookings
                /\ flights[f].exists
                      => /\ flights'[f].exists
                         /\ flights'[f].availableSeats = flights[f].availableSeats
                /\ (req[p].pc = "findFlight" /\ ~flights[f].exists)
                      => /\ req'[p].pc = "done" /\ req'[p].status = 404
                         /\ flights' = flights
                /\ (req[p].pc = "findFlight" /\ flights[f].exists)
                      => /\ req'[p].pc = "saveFlight"
                         /\ flights' = flights
                /\ req[p].pc = "saveFlight"
                      => /\ req'[p].pc = "done" /\ req'[p].status = 200
                         /\ "flightName" \notin body.has
                               => flights'[f].flightName = flights[f].flightName
                         /\ "totalSeats" \notin body.has
                               => flights'[f].totalSeats = flights[f].totalSeats
                         /\ ("flightName" \in body.has /\ body.flightName # "")
                               => flights'[f].flightName = body.flightName
                         /\ ("totalSeats" \in body.has /\ body.totalSeats # 0)
                               => flights'[f].totalSeats = body.totalSeats ]_vars

\* A flight with a booked seat was renamed: its name is the new one, and its
\* totalSeats and availableSeats are the ones it had.
C17_Witness ==
    /\ req[1].kind = "update" /\ req[1].pc = "done" /\ req[1].status = 200
    /\ flights[1].exists /\ flights[1].flightName = "BB"
    /\ flights[1].totalSeats = 2 /\ flights[1].availableSeats = 1
    /\ bookings[1].exists /\ bookings[1].bookingStatus = "confirmed"

\* C18: every booking has at least one passenger, and a book-ticket with an
\* empty passengers array answers 400.
C18_BookingHasPassengers ==
    /\ \A b \in BookingIds : bookings[b].exists => Len(bookings[b].passengers) >= 1
    /\ \A p \in Procs :
          (req[p].kind = "book" /\ req[p].pc = "done" /\ Len(req[p].passengers) = 0)
          => req[p].status \in {400, 404}

\* C19: every book-ticket and cancel-ticket request that is in flight can take
\* its next step whatever the other handlers are doing, and under fair scheduling
\* it finishes, with one of the answers the handler has.
C19_RequestsFinish ==
    \A p \in Procs :
        /\ [](InFlight(p) => ENABLED (BookStep(p) \/ CancelStep(p)))
        /\ (req[p].kind = "book" /\ InFlight(p))
              ~> (req[p].kind = "book" /\ req[p].pc = "done"
                    /\ req[p].status \in {201, 400, 404})
        /\ (req[p].kind = "cancel" /\ InFlight(p))
              ~> (req[p].kind = "cancel" /\ req[p].pc = "done"
                    /\ req[p].status \in {200, 400, 403, 404})

\* A book-ticket was answered 201 while a cancel-ticket on its booking was in
\* flight, about to save.
C19_Witness ==
    /\ req[1].kind = "book" /\ req[1].pc = "done" /\ req[1].status = 201
    /\ req[2].kind = "cancel" /\ req[2].pc = "saveFlight"
    /\ req[2].bookingId = req[1].bookingId

\* C20: on a flight whose totalSeats was never edited, whenever no book-ticket or
\* cancel-ticket is in flight, availableSeats plus the passengers of the flight's
\* confirmed bookings is totalSeats. (The booking engine edits no flight.)
C20_SeatConservation ==
    \A f \in FlightIds :
        (flights[f].exists /\ NoneInFlight)
        => flights[f].availableSeats
             + SumPassengers({b \in BookingsOn(f) : bookings[b].bookingStatus = "confirmed"})
           = flights[f].totalSeats

\* The stored users a token's payload names (its id is the user's _id).
StoredUsersOf(caller) == {u \in UserIds : users[u].exists /\ ToString(u) = caller.id}

\* C21: an add-flight answered 201 and an update-flight answered 200 come from a
\* caller whose stored approval is approved at that moment, whatever the token
\* presented says.
C21_StoredApprovalDecides ==
    [][ /\ (resp' # resp /\ resp'.kind = "add-flight" /\ resp'.status = 201)
              => \A u \in StoredUsersOf(resp'.caller) : users[u].approval = "approved"
        /\ \A p \in Procs :
              ( /\ req[p].kind = "update" /\ req[p].pc = "saveFlight"
                /\ req'[p].pc = "done" /\ req'[p].status = 200 )
              => \A u \in StoredUsersOf(req[p].caller) : users[u].approval = "approved"
      ]_vars

\* C21, amended: an add-flight answered 201 and an update-flight let through come
\* from a caller whose unexpired token says flight-operator and approved, and
\* the server issues such a token only while the stored approval of the user it
\* names is approved; what is stored at the moment of the request is not looked
\* at.
C21_TokenApprovalDecides ==
    [][ /\ (resp' # resp /\ resp'.kind = "add-flight" /\ resp'.status = 201)
              => /\ resp'.caller \in tokens
                 /\ resp'.caller.usertype = "flight-operator"
                 /\ resp'.caller.approval = "approved"
        /\ \A p \in Procs :
              ( /\ Free(p) /\ req'[p].kind = "update" /\ req'[p].pc = "findFlight" )
              => /\ req'[p].caller \in tokens
                 /\ req'[p].caller.usertype = "flight-operator"
                 /\ req'[p].caller.approval = "approved"
        /\ \A p \in Procs :
              ( /\ req[p].kind = "update" /\ req[p].pc = "saveFlight"
                /\ req'[p].pc = "done" /\ req'[p].status = 200 )
              => /\ req[p].caller.usertype = "flight-operator"
                 /\ req[p].caller.approval = "approved"
        /\ \A t \in tokens' \ tokens :
              (t.usertype = "flight-operator" /\ t.approval = "approved")
              => \E u \in UserIds : /\ users'[u].exists /\ ToString(u) = t.id
                                    /\ users'[u].usertype = "flight-operator"
                                    /\ users'[u].approval = "approved"
      ]_vars

\* A flight was added with the token of an operator whose stored approval is
\* rejected: the token was issued while the operator was approved.
C21_Witness ==
    /\ resp.kind = "add-flight" /\ resp.status = 201
    /\ resp.caller \in tokens
    /\ \E u \in StoredUsersOf(resp.caller) : users[u].approval = "rejected"
    /\ flights[1].exists

====
